---- MODULE Spec2Model ----
(***************************************************************************)
(* The USDA food importer of the nutrition service (package importer):     *)
(* Importer.Run = connect, createTables, importData, executed against a    *)
(* PostgreSQL store through database/sql and lib/pq.                       *)
(*                                                                         *)
(* The store is modelled with the behaviour PostgreSQL gives the           *)
(* statements the importer issues:                                         *)
(*   - DDL issued through i.db.Exec is autocommitted, statement by         *)
(*     statement;                                                          *)
(*   - rows inserted through tx.Exec are invisible to other sessions until *)
(*     COMMIT;                                                             *)
(*   - a statement that fails inside a transaction block puts the block in *)
(*     the failed state: every later statement of the block fails, and     *)
(*     COMMIT rolls the block back (lib/pq reports ErrInFailedTransaction);*)
(*   - DROP TABLE foods CASCADE removes the foreign keys that reference    *)
(*     foods, not the referencing tables or their rows.                    *)
(***************************************************************************)
EXTENDS Integers, Sequences, FiniteSets, TLC

(***************************************************************************)
(* Bounds                                                                  *)
(***************************************************************************)
MaxId == 2        \* fdcId, portion id and nutrient id range over 1..MaxId
MaxFoods == 2     \* food records in a document
MaxKids == 1      \* entries in each child list of a food record
MaxRecords == 4   \* food records plus child entries in a document
MaxRuns == 2      \* invocations of the importer in one behaviour

Ids == 1..MaxId

(***************************************************************************)
(* Schema                                                                  *)
(***************************************************************************)
TableNames == {"foods", "input_foods", "food_portions", "food_attributes", "food_nutrients"}
ChildTables == TableNames \ {"foods"}
\* food_portions and food_nutrients get a generated key like the other child
\* tables, so that no insert into them ever conflicts
KeyedTables_foodsOnly == {"foods"}

\* tables whose key is supplied by the source and whose insert carries
\* ON CONFLICT (key) DO NOTHING
KeyedTables == {"foods", "food_portions", "food_nutrients"}

SeqsUpTo(S, n) == UNION {[1..k -> S] : k \in 0..n}

\* type Derivation
Derivation == {[Code |-> "A", Description |-> "Analytical"]}

\* type FoodNutrient; the pointer FoodNutrientDerivation is a sequence that
\* is empty for nil and holds the Derivation otherwise
FoodNutrient == [Id : Ids, FoodNutrientDerivation : SeqsUpTo(Derivation, 1)]

\* type FoundationFood; the child lists without a source-supplied key
\* (InputFoods, FoodAttributes) are kept as their length
FoundationFood ==
    [FdcId : Ids,
     InputFoods : 0..MaxKids,
     FoodPortions : SeqsUpTo(Ids, MaxKids),
     FoodAttributes : 0..MaxKids,
     FoodNutrients : SeqsUpTo(FoodNutrient, MaxKids)]

FoodSize(f) == 1 + f.InputFoods + Len(f.FoodPortions) + f.FoodAttributes + Len(f.FoodNutrients)

\* the documents of at most n food records and at most budget records in all
RECURSIVE DocsWithin(_, _)
DocsWithin(n, budget) ==
    IF n = 0 THEN {<<>>}
    ELSE {<<>>} \cup
         UNION {{<<f>> \o d : d \in DocsWithin(n - 1, budget - FoodSize(f))} :
                f \in {g \in FoundationFood : FoodSize(g) <= budget}}

\* the values json.Unmarshal can give root.FoundationFoods
Docs == DocsWithin(MaxFoods, MaxRecords)

\* the file at JSONPath: missing, not JSON, or a document
Files == {[state |-> "missing", foods |-> <<>>], [state |-> "malformed", foods |-> <<>>]}
           \cup {[state |-> "ok", foods |-> d] : d \in Docs}

(***************************************************************************)
(* createTables: the statement list                                        *)
(***************************************************************************)
\* the indexes of the schema and the table each is on
IndexNames == {"idx_food_nutrients_fdc", "idx_food_nutrients_nutrient", "idx_foods_description",
               "idx_food_portions_fdc", "idx_food_attributes_fdc"}
IndexTable ==
    [n \in IndexNames |->
        CASE n = "idx_food_nutrients_fdc" -> "food_nutrients"
          [] n = "idx_food_nutrients_nutrient" -> "food_nutrients"
          [] n = "idx_foods_description" -> "foods"
          [] n = "idx_food_portions_fdc" -> "food_portions"
          [] n = "idx_food_attributes_fdc" -> "food_attributes"]

DropQ(t) == [op |-> "drop", tbl |-> t, name |-> t]
CreateQ(t) == [op |-> "create", tbl |-> t, name |-> t]
IndexQ(n) == [op |-> "index", tbl |-> IndexTable[n], name |-> n]

\* the refresh forgets food_portions: neither dropped nor created nor indexed
queries_keepPortions ==
    << DropQ("food_attributes"), DropQ("food_nutrients"),
       DropQ("input_foods"), DropQ("foods"),
       CreateQ("foods"), CreateQ("input_foods"),
       CreateQ("food_attributes"), CreateQ("food_nutrients"),
       IndexQ("idx_food_nutrients_fdc"),
       IndexQ("idx_food_nutrients_nutrient"),
       IndexQ("idx_foods_description"),
       IndexQ("idx_food_attributes_fdc") >>

\* the refresh forgets input_foods: neither dropped nor created
queries_keepInputs ==
    << DropQ("food_portions"), DropQ("food_attributes"), DropQ("food_nutrients"),
       DropQ("foods"),
       CreateQ("foods"), CreateQ("food_portions"),
       CreateQ("food_attributes"), CreateQ("food_nutrients"),
       IndexQ("idx_food_nutrients_fdc"),
       IndexQ("idx_food_nutrients_nutrient"),
       IndexQ("idx_foods_description"),
       IndexQ("idx_food_portions_fdc"),
       IndexQ("idx_food_attributes_fdc") >>

\* food_attributes is dropped but never created again
queries_noAttributes ==
    << DropQ("food_portions"), DropQ("food_attributes"), DropQ("food_nutrients"),
       DropQ("input_foods"), DropQ("foods"),
       CreateQ("foods"), CreateQ("input_foods"), CreateQ("food_portions"),
       CreateQ("food_nutrients"),
       IndexQ("idx_food_nutrients_fdc"),
       IndexQ("idx_food_nutrients_nutrient"),
       IndexQ("idx_foods_description"),
       IndexQ("idx_food_portions_fdc") >>

queries ==
    << DropQ("food_portions"), DropQ("food_attributes"), DropQ("food_nutrients"),
       DropQ("input_foods"), DropQ("foods"),
       CreateQ("foods"), CreateQ("input_foods"), CreateQ("food_portions"),
       CreateQ("food_attributes"), CreateQ("food_nutrients"),
       IndexQ("idx_food_nutrients_fdc"),
       IndexQ("idx_food_nutrients_nutrient"),
       IndexQ("idx_foods_description"),
       IndexQ("idx_food_portions_fdc"),
       IndexQ("idx_food_attributes_fdc") >>

(***************************************************************************)
(* The store                                                               *)
(***************************************************************************)
NoTable == [exists |-> FALSE, fk |-> FALSE, rows |-> <<>>]
EmptyTable(t) == [exists |-> TRUE, fk |-> t \in ChildTables, rows |-> <<>>]
Row(id, fdc) == [id |-> id, fdc_id |-> fdc]
\* a row of food_nutrients, which also has the two derivation columns
NutrientRow(id, fdc, code, desc) ==
    [id |-> id, fdc_id |-> fdc, derivation_code |-> code, derivation_desc |-> desc]

NoRows == [t \in TableNames |-> <<>>]
NoTx == [status |-> "none", rows |-> NoRows, locks |-> {}]

\* a schema in which the five tables have never been created
FreshStore == [tables |-> [t \in TableNames |-> NoTable], indexes |-> {}]

\* a schema that holds the dataset of an earlier import: one food (with an
\* fdc_id outside the new documents) and one row in each child table
OldId == MaxId + 1
LoadedStore ==
    [tables |-> [t \in TableNames |->
        [exists |-> TRUE, fk |-> t \in ChildTables,
         rows |-> << IF t = "food_nutrients" THEN NutrientRow(OldId, OldId, "", "")
                     ELSE Row(IF t \in KeyedTables THEN OldId ELSE 0, OldId) >>]],
     indexes |-> IndexNames]

\* PostgreSQL executing one statement of createTables (autocommit)
ExecDDL(d, q) ==
    LET T == d.tables IN
    CASE q.op = "drop" ->
           \* DROP TABLE IF EXISTS q.tbl CASCADE: the table, its rows and its
           \* indexes go; dropping foods removes the foreign keys on it
           [err |-> FALSE,
            db |-> [tables |-> [t \in TableNames |->
                                  IF t = q.tbl THEN NoTable
                                  ELSE IF q.tbl = "foods" /\ T[q.tbl].exists
                                       THEN [T[t] EXCEPT !.fk = FALSE]
                                       ELSE T[t]],
                    indexes |-> {n \in d.indexes : IndexTable[n] # q.tbl}]]
      [] q.op = "create" ->
           IF T[q.tbl].exists \/ (q.tbl \in ChildTables /\ ~T["foods"].exists)
           THEN [err |-> TRUE, db |-> d]
           ELSE [err |-> FALSE,
                 db |-> [d EXCEPT !.tables[q.tbl] = EmptyTable(q.tbl)]]
      [] q.op = "index" ->
           IF ~T[q.tbl].exists \/ q.name \in d.indexes
           THEN [err |-> TRUE, db |-> d]
           ELSE [err |-> FALSE, db |-> [d EXCEPT !.indexes = @ \cup {q.name}]]

\* the rows of table t that the session holding transaction x sees
Visible(d, x, t) == d.tables[t].rows \o x.rows[t]

HasKey(rows, id) == \E k \in 1..Len(rows) : rows[k].id = id
HasFood(rows, fdc) == \E k \in 1..Len(rows) : rows[k].fdc_id = fdc

\* the statement is sent on the pool (i.db.Exec) and commits on its own
TxExec_autocommit(d, x, t, r, fail) ==
    IF fail \/ ~d.tables[t].exists
    THEN [err |-> TRUE, dup |-> FALSE, db |-> d, tx |-> x]
    ELSE IF t \in KeyedTables /\ HasKey(d.tables[t].rows, r.id)
    THEN [err |-> FALSE, dup |-> TRUE, db |-> d, tx |-> x]
    ELSE [err |-> FALSE, dup |-> FALSE,
          db |-> [d EXCEPT !.tables[t].rows = Append(@, r)], tx |-> x]

\* the insert lacks its ON CONFLICT clause: a repeated key is a
\* unique_violation
TxExec_noConflictClause(d, x, t, r, fail) ==
    LET dup == t \in KeyedTables /\ d.tables[t].exists /\ HasKey(Visible(d, x, t), r.id)
    IN  IF x.status # "open"
        THEN [err |-> TRUE, dup |-> dup, db |-> d, tx |-> x]
        ELSE IF fail \/ ~d.tables[t].exists \/ dup
                  \/ (d.tables[t].fk /\ ~HasFood(Visible(d, x, "foods"), r.fdc_id))
        THEN [err |-> TRUE, dup |-> dup, db |-> d, tx |-> [x EXCEPT !.status = "failed"]]
        ELSE [err |-> FALSE, dup |-> FALSE, db |-> d,
              tx |-> [x EXCEPT !.rows[t] = Append(@, r)]]

\* the conflict clause is DO UPDATE: a repeated key overwrites the row
TxExec_overwrite(d, x, t, r, fail) ==
    LET dup == t \in KeyedTables /\ d.tables[t].exists /\ HasKey(Visible(d, x, t), r.id)
    IN  IF x.status # "open"
        THEN [err |-> TRUE, dup |-> dup, db |-> d, tx |-> x]
        ELSE IF fail \/ ~d.tables[t].exists
        THEN [err |-> TRUE, dup |-> dup, db |-> d, tx |-> [x EXCEPT !.status = "failed"]]
        ELSE IF dup
        THEN [err |-> FALSE, dup |-> TRUE, db |-> d,
              tx |-> [x EXCEPT !.rows[t] =
                        [k \in DOMAIN @ |-> IF @[k].id = r.id THEN r ELSE @[k]]]]
        ELSE IF d.tables[t].fk /\ ~HasFood(Visible(d, x, "foods"), r.fdc_id)
        THEN [err |-> TRUE, dup |-> FALSE, db |-> d, tx |-> [x EXCEPT !.status = "failed"]]
        ELSE [err |-> FALSE, dup |-> FALSE, db |-> d,
              tx |-> [x EXCEPT !.rows[t] = Append(@, r)]]

\* tx.Exec of one INSERT of row r into table t; fail: the statement raises an
\* error of its own (value out of range, invalid text, lost connection)
TxExec(d, x, t, r, fail) ==
    LET dup == t \in KeyedTables /\ d.tables[t].exists /\ HasKey(Visible(d, x, t), r.id)
    IN  IF x.status # "open"
        THEN \* 25P02: current transaction is aborted
             [err |-> TRUE, dup |-> dup, db |-> d, tx |-> x]
        ELSE IF fail \/ ~d.tables[t].exists
        THEN [err |-> TRUE, dup |-> dup, db |-> d, tx |-> [x EXCEPT !.status = "failed"]]
        ELSE IF dup
        THEN \* ON CONFLICT DO NOTHING
             [err |-> FALSE, dup |-> TRUE, db |-> d, tx |-> x]
        ELSE IF d.tables[t].fk /\ ~HasFood(Visible(d, x, "foods"), r.fdc_id)
        THEN [err |-> TRUE, dup |-> FALSE, db |-> d, tx |-> [x EXCEPT !.status = "failed"]]
        ELSE [err |-> FALSE, dup |-> FALSE, db |-> d,
              tx |-> [x EXCEPT !.rows[t] = Append(@, r)]]

\* only the rows of foods survive the COMMIT
CommitRows_foodsOnly(d, x) ==
    [d EXCEPT !.tables["foods"].rows = @ \o x.rows["foods"]]

\* COMMIT of a healthy block: its rows become visible at once
CommitRows(d, x) ==
    [d EXCEPT !.tables = [t \in TableNames |->
                            [d.tables[t] EXCEPT !.rows = @ \o x.rows[t]]]]

Counts(d) == [t \in TableNames |-> Len(d.tables[t].rows)]

\* the table locks an INSERT into t takes and the transaction x keeps until
\* it ends: on t, and on foods when t references it
LocksTaken(d, x, t) ==
    IF x.status = "open" /\ d.tables[t].exists
    THEN {t} \cup (IF d.tables[t].fk THEN {"foods"} ELSE {})
    ELSE {}

\* statement q of createTables has to wait for a transaction that holds the
\* locks L: DROP and CREATE INDEX on a locked table, CREATE TABLE with a
\* reference to locked foods
Blocked(q, L) == q.tbl \in L \/ (q.op = "create" /\ q.tbl \in ChildTables /\ "foods" \in L)

\* the INSERT of row r into t has to wait for the transaction x, which has
\* inserted the same key and not ended
KeyWait(t, r, x) == t \in KeyedTables /\ HasKey(x.rows[t], r.id)

(***************************************************************************)
(* State                                                                   *)
(***************************************************************************)
VARIABLES
    file,     \* the content of config.JSONPath
    db,       \* the committed content of the target schema (what any session reads)
    tx,       \* the load transaction: its status ("none": not begun) and its
              \* uncommitted rows
    handle,   \* the *sql.DB of the run: "nil" (none opened), "open" (held in
              \* i.db), "closed", or "unclosed" (opened, no longer referenced
              \* and never closed)
    op,       \* the entry point that is executing: "Run" or "importData"
    pc,       \* the position inside it
    qi,       \* createTables: index of the next statement of queries
    root,     \* importData: root.FoundationFoods
    pos,      \* importData: the next INSERT, [idx, stage, j]
    totals,   \* importData: totalFoods, totalNutrients, totalPortions, totalAttrs
    err,      \* the error the entry point returned ("nil": none)
    stmts,    \* history: the INSERT statements issued by the current load
    hist,     \* history: row counts left by earlier successful runs and loads;
              \* loads: successful loads since createTables last succeeded
              \* (-1: the tables are not known to stem from createTables)
    nOps,     \* number of invocations so far
    pub,      \* the content of the schema a new session resolves names in
              \* (the server's default search_path)
    conn,     \* the sessions of i.db: path, the search_path of the pooled
              \* connection ("default" or "target"); txPath, that of the
              \* connection the load transaction holds; lost, the number of
              \* connections the pool has replaced so far
    app,      \* what runs beside the importer: search, the last call of
              \* FoodHandler.SearchFoods; run2, a second invocation of Run on
              \* the same schema (pc, qi, tx, pos, err as above; hit: the
              \* invocations whose load its DROP statements fell into)
    host      \* the server process that embeds the importer (cmd/server main):
              \* conf, the configuration file; env, whether the database
              \* accepts the host's connection and the listen address is
              \* free; cfg, the loaded configuration; main, the position of
              \* main; srv, the goroutine of ListenAndServe; imp, the
              \* goroutine of runFoodImport; log, the lines written with the
              \* standard logger; exit, why the process ended ("none": alive);
              \* req and resp, the last HTTP request served and the status
              \* of its response (0: none)

vars == <<file, db, tx, handle, op, pc, qi, root, pos, totals, err, stmts, hist, nOps,
          pub, conn, host, app>>

\* no connection yet
NoConn == [path |-> "default", txPath |-> "default", lost |-> 0]
\* the schema in which a session with search_path p resolves table names
InSchema(p, d, q) == IF p = "target" THEN d ELSE q

ZeroTotals == [Foods |-> 0, Nutrients |-> 0, Portions |-> 0, Attrs |-> 0]
ZeroCounts == [t \in TableNames |-> 0]
StartPos == [idx |-> 1, stage |-> "food", j |-> 1]

\* the values a boolean key of the configuration file can have
Settings == {"absent", "true", "false"}
\* the configuration file: unreadable, or the two keys of its importer section
ConfFiles == {[readable |-> FALSE, enabled |-> "absent", import_on_startup |-> "absent"]}
             \cup [readable : {TRUE}, enabled : Settings, import_on_startup : Settings]
NoCfg == [Enabled |-> FALSE, ImportOnStartup |-> FALSE]
\* no request has been served
NoReq == [method |-> "", path |-> "", hasAuth |-> FALSE, auth |-> <<>>]
\* the importer used on its own: there is no host process
HostOff == [conf |-> [readable |-> FALSE, enabled |-> "absent", import_on_startup |-> "absent"],
            env |-> [dbUp |-> FALSE, portFree |-> FALSE],
            cfg |-> NoCfg, main |-> "off", srv |-> "none", imp |-> "none",
            log |-> {}, exit |-> "none", req |-> NoReq, resp |-> 0]

\* no search has been served
NoSearch == [served |-> 0, status |-> 0, limit |-> 0, offset |-> 0, total |-> 0, page |-> 0,
             totalPages |-> 0, repoLimit |-> 0, repoOffset |-> 0]
\* there is no second run
NoRun2 == [pc |-> "off", qi |-> 1, tx |-> NoTx, pos |-> StartPos, err |-> "nil", hit |-> {}]

\* the value of a nullable column that is not set
NULL == 0
Users == {"u1", "u2"}
Dates == {1, 2}
\* the goroutines that serve diary requests at the same time
Slots == {1, 2}

\* a row of diary.food_entries: fdc_id references nutrition.foods or is NULL
\* (then custom_food_name is set, chk_food_source)
Entry(id, u, d, f, g) ==
    [id |-> id, user_id |-> u, date |-> d, fdc_id |-> f, amount_grams |-> g]
\* the entries the table can hold when the importer or a handler starts
DiaryPool == {Entry(1, "u1", 1, OldId, 1), Entry(2, "u1", 2, NULL, 1),
              Entry(3, "u2", 1, OldId, 1)}
\* the ids a request can name: those of the pool and the next one
EntryIds == 1..(Cardinality(DiaryPool) + 1)

\* no copy has been asked for
NoCopy == [n |-> 0, ok |-> FALSE, user |-> "", source |-> 0, target |-> 0,
           before |-> {}, after |-> {}]
\* no request in the slot
NoEntryReq == [kind |-> "none", id |-> 0, user |-> "", grams |-> 0, pc |-> "idle",
               status |-> 0, changed |-> {}]
\* the table as migration 003 and earlier requests left it; fk, the foreign
\* key of fdc_id to nutrition.foods: "valid", "dropped" by a DROP ... CASCADE
\* of foods, or "none" (foods was gone before)
DiaryOff == [rows |-> DiaryPool, fk |-> "valid", nextId |-> Cardinality(DiaryPool) + 1,
             served |-> 0, copy |-> NoCopy, reqs |-> [s \in Slots |-> NoEntryReq]]
\* GetFoodByID has not been called
NoRead == [n |-> 0, pc |-> "idle", fdc |-> 0, food |-> <<>>, nutrients |-> <<>>,
           err |-> FALSE, v1 |-> [food |-> <<>>, nutrients |-> <<>>],
           v2 |-> [food |-> <<>>, nutrients |-> <<>>]]
\* no handler has been called
AppOff == [search |-> NoSearch, run2 |-> NoRun2, diary |-> DiaryOff, read |-> NoRead]
\* the same beside the target schema d
AppFor(d) == [AppOff EXCEPT !.diary.fk = IF d.tables["foods"].exists THEN "valid" ELSE "none"]

\* DROP ... CASCADE deletes the referencing entries' fdc_id as a DELETE of the
\* foods rows would (ON DELETE SET NULL)
DropCascade_setNull(y, d, q) ==
    IF q.op = "drop" /\ q.tbl = "foods" /\ d.tables["foods"].exists
    THEN [y EXCEPT !.fk = IF @ = "valid" THEN "dropped" ELSE @,
                   !.rows = {IF y.fk = "valid" THEN [e EXCEPT !.fdc_id = NULL] ELSE e : e \in @}]
    ELSE y

\* what statement q of createTables, run on the target schema d, does to the
\* diary y: DROP TABLE foods CASCADE drops the foreign key constraint of
\* diary.food_entries and touches no row
DropCascade(y, d, q) ==
    IF q.op = "drop" /\ q.tbl = "foods" /\ d.tables["foods"].exists
    THEN [y EXCEPT !.fk = IF @ = "valid" THEN "dropped" ELSE @]
    ELSE y

ImporterInit ==
    /\ db \in {FreshStore, LoadedStore}
    /\ tx = NoTx
    /\ handle = "nil"
    /\ op = "none"
    /\ pc = "idle"
    /\ qi = 1
    /\ root = <<>>
    /\ pos = StartPos
    /\ totals = ZeroTotals
    /\ err = "nil"
    /\ stmts = <<>>
    /\ hist = [okRuns |-> 0, runCounts |-> ZeroCounts, prevRunCounts |-> ZeroCounts,
               loads |-> -1, loadCounts |-> ZeroCounts]
    /\ nOps = 0
    /\ pub = FreshStore
    /\ conn = NoConn

Init ==
    /\ file \in Files
    /\ ImporterInit
    /\ host = HostOff
    /\ app = AppFor(db)


(***************************************************************************)
(* importData: the loop over root.FoundationFoods                          *)
(***************************************************************************)
\* the portions loop is written before the input-foods loop
StageName_portionsFirst == <<"portion", "input", "attr", "nutrient">>

\* the four range loops of the body, in the order they are written
StageName == <<"input", "portion", "attr", "nutrient">>
\* the place of a stage in the body: 0 for the food insert itself
StageNum(st) == IF st = "food" THEN 0 ELSE CHOOSE s \in 1..4 : StageName[s] = st
StageTable == [food |-> "foods", input |-> "input_foods", portion |-> "food_portions",
               attr |-> "food_attributes", nutrient |-> "food_nutrients"]

\* the input-foods loop runs once for a food that has no input foods
ChildCount_placeholderInput(f, st) ==
    CASE st = "input" -> IF f.InputFoods = 0 THEN 1 ELSE f.InputFoods
      [] st = "portion" -> Len(f.FoodPortions)
      [] st = "attr" -> f.FoodAttributes
      [] st = "nutrient" -> Len(f.FoodNutrients)

\* number of entries of the child list that stage s ranges over
ChildCount(f, st) ==
    CASE st = "input" -> f.InputFoods
      [] st = "portion" -> Len(f.FoodPortions)
      [] st = "attr" -> f.FoodAttributes
      [] st = "nutrient" -> Len(f.FoodNutrients)

FoodPos(i) == [idx |-> i, stage |-> "food", j |-> 1]

\* the first INSERT at or after entry j of child list s of food i: the four
\* range loops in their order, then the next food
RECURSIVE Seek(_, _, _, _)
Seek(r, i, s, j) ==
    IF s > 4 THEN FoodPos(i + 1)
    ELSE IF j <= ChildCount(r[i], StageName[s]) THEN [idx |-> i, stage |-> StageName[s], j |-> j]
    ELSE Seek(r, i, s + 1, 1)

\* the nil check is missing and an absent derivation is passed on as NULL
derivationFields_null(n) ==
    IF n.FoodNutrientDerivation # <<>>
    THEN [code |-> n.FoodNutrientDerivation[1].Code,
          desc |-> n.FoodNutrientDerivation[1].Description]
    ELSE [code |-> "NULL", desc |-> "NULL"]

\* derivationCode, derivationDesc of nutrient entry n
derivationFields(n) ==
    IF n.FoodNutrientDerivation # <<>>
    THEN [code |-> n.FoodNutrientDerivation[1].Code,
          desc |-> n.FoodNutrientDerivation[1].Description]
    ELSE [code |-> "", desc |-> ""]

\* the arguments of the INSERT at position p of food record f
RowAt(f, p) ==
    CASE p.stage = "food" -> Row(f.FdcId, f.FdcId)
      [] p.stage = "input" -> Row(0, f.FdcId)
      [] p.stage = "portion" -> Row(f.FoodPortions[p.j], f.FdcId)
      [] p.stage = "attr" -> Row(0, f.FdcId)
      [] p.stage = "nutrient" ->
           LET n == f.FoodNutrients[p.j]
           IN  NutrientRow(n.Id, f.FdcId, derivationFields(n).code, derivationFields(n).desc)

\* the food insert's error is logged but the loop body goes on
LoopNext_noContinue(r, p, e) ==
    LET n == IF p.stage = "food" THEN Seek(r, p.idx, 1, 1)
             ELSE Seek(r, p.idx, StageNum(p.stage), p.j + 1)
    IN  [pos |-> n, done |-> n.idx > p.idx]

\* where the loop goes after the INSERT at p returned (e: with an error), and
\* whether the body of food p.idx ran to its end (totalFoods++)
LoopNext(r, p, e) ==
    IF p.stage = "food" /\ e
    THEN [pos |-> FoodPos(p.idx + 1), done |-> FALSE]       \* continue
    ELSE LET n == IF p.stage = "food" THEN Seek(r, p.idx, 1, 1)
                  ELSE Seek(r, p.idx, StageNum(p.stage), p.j + 1)
         IN  [pos |-> n, done |-> n.idx > p.idx]

\* the counters after the INSERT of stage st returned
Tally(tot, st, e, done) ==
    [Foods |-> tot.Foods + (IF done THEN 1 ELSE 0),
     Portions |-> tot.Portions + (IF st = "portion" /\ ~e THEN 1 ELSE 0),
     Attrs |-> tot.Attrs + (IF st = "attr" THEN 1 ELSE 0),
     Nutrients |-> tot.Nutrients + (IF st = "nutrient" /\ ~e THEN 1 ELSE 0)]

\* only the food branch logs its error
Logged_foodOnly(st, e) == e /\ st = "food"

\* whether the code that handles the result of the INSERT of stage st writes
\* a log line: the food and portion branches call i.logger.Printf, the
\* nutrient branch is empty, input-foods and attributes discard the error
Logged(st, e) == e /\ st \in {"food", "portion"}

(***************************************************************************)
(* Importer.Run                                                            *)
(***************************************************************************)
\* the entry point returns the error e; the deferred i.db.Close() runs
Return(e) ==
    /\ pc' = "failed"
    /\ err' = e
    /\ handle' = IF handle = "open" THEN "closed" ELSE handle

Enter(o) ==
    /\ pc \in {"idle", "done", "failed"}
    /\ nOps < MaxRuns
    /\ nOps' = nOps + 1
    /\ op' = o
    /\ pc' = "connect"
    /\ handle' = "nil"
    /\ tx' = NoTx
    /\ qi' = 1
    /\ root' = <<>>
    /\ pos' = StartPos
    /\ totals' = ZeroTotals
    /\ err' = "nil"
    /\ stmts' = <<>>
    /\ conn' = [NoConn EXCEPT !.lost = conn.lost]
    /\ UNCHANGED <<file, db, hist, pub, app>>

\* a caller invokes Run
RunStart == Enter("Run") /\ UNCHANGED host

\* i.connect(): sql.Open and db.Ping
Connect ==
    /\ pc = "connect"
    /\ \E res \in {"ok", "open_failed", "ping_failed"} :
         IF res = "open_failed"
         THEN Return("connect")
         ELSE IF res = "ping_failed"
         THEN \* the *sql.DB that sql.Open returned is dropped: it is neither
              \* stored in i.db nor closed
              /\ pc' = "failed"
              /\ err' = "connect"
              /\ handle' = "unclosed"
         ELSE /\ handle' = "open"
              /\ pc' = IF op = "Run" THEN "search_path" ELSE "read"
              /\ err' = err
    /\ UNCHANGED <<file, db, tx, op, qi, root, pos, totals, stmts, hist, nOps, pub, conn, host, app>>

\* createTables: SET search_path
SetSearchPath ==
    /\ pc = "search_path"
    /\ \E fail \in BOOLEAN :
         IF fail
         THEN Return("tables") /\ conn' = conn
         ELSE /\ pc' = "ddl"
              /\ conn' = [conn EXCEPT !.path = "target"]
              /\ UNCHANGED <<err, handle>>
    /\ UNCHANGED <<file, db, tx, op, qi, root, pos, totals, stmts, hist, nOps, pub, host, app>>

\* createTables: one i.db.Exec(query) of the loop over queries
ExecQuery ==
    /\ pc = "ddl"
    /\ ~Blocked(queries[qi], app.run2.tx.locks)
    /\ \E fail \in BOOLEAN :
         LET r == ExecDDL(InSchema(conn.path, db, pub), queries[qi]) IN
         IF fail \/ r.err
         THEN /\ Return("tables")
              /\ UNCHANGED <<db, pub, qi, hist, app>>
         ELSE /\ db' = InSchema(conn.path, r.db, db)
              /\ pub' = InSchema(conn.path, pub, r.db)
              /\ qi' = qi + 1
              /\ pc' = IF qi = Len(queries) THEN "read" ELSE "ddl"
              /\ hist' = [hist EXCEPT !.loads = IF qi = Len(queries) THEN 0 ELSE -1]
              /\ app' = IF conn.path = "target"
                        THEN [app EXCEPT !.diary = DropCascade(@, db, queries[qi])]
                        ELSE app
              /\ UNCHANGED <<err, handle>>
    /\ UNCHANGED <<file, tx, op, root, pos, totals, stmts, nOps, conn, host>>

\* importData: os.ReadFile
ReadFile ==
    /\ pc = "read"
    /\ IF file.state = "missing"
       THEN Return("read")
       ELSE pc' = "parse" /\ UNCHANGED <<err, handle>>
    /\ UNCHANGED <<file, db, tx, op, qi, root, pos, totals, stmts, hist, nOps, pub, conn, host, app>>

\* importData: json.Unmarshal
Unmarshal ==
    /\ pc = "parse"
    /\ IF file.state = "malformed"
       THEN Return("parse") /\ root' = root
       ELSE /\ root' = file.foods
            /\ pc' = "search_path2"
            /\ UNCHANGED <<err, handle>>
    /\ UNCHANGED <<file, db, tx, op, qi, pos, totals, stmts, hist, nOps, pub, conn, host, app>>

\* importData: SET search_path
SetSearchPath2 ==
    /\ pc = "search_path2"
    /\ \E fail \in BOOLEAN :
         IF fail
         THEN Return("search_path") /\ conn' = conn
         ELSE /\ pc' = "begin"
              /\ conn' = [conn EXCEPT !.path = "target"]
              /\ UNCHANGED <<err, handle>>
    /\ UNCHANGED <<file, db, tx, op, qi, root, pos, totals, stmts, hist, nOps, pub, host, app>>

\* importData: i.db.Begin()
Begin ==
    /\ pc = "begin"
    /\ \E fail \in BOOLEAN :
         IF fail
         THEN Return("begin") /\ tx' = tx /\ conn' = conn
         ELSE /\ tx' = [status |-> "open", rows |-> NoRows, locks |-> {}]
              /\ conn' = [conn EXCEPT !.txPath = conn.path]
              /\ pc' = IF Len(root) = 0 THEN "commit" ELSE "loop"
              /\ UNCHANGED <<err, handle>>
    /\ UNCHANGED <<file, db, op, qi, root, pos, totals, stmts, hist, nOps, pub, host, app>>

\* importData: one tx.Exec of the loop and the code that handles its result
InsertStep ==
    /\ pc = "loop"
    /\ ~KeyWait(StageTable[pos.stage], RowAt(root[pos.idx], pos), app.run2.tx)
    /\ \E fail \in BOOLEAN :
         /\ fail => tx.status = "open"
         /\ LET f == root[pos.idx]
                t == StageTable[pos.stage]
                cur == InSchema(conn.txPath, db, pub)
                r == TxExec(cur, tx, t, RowAt(f, pos), fail)
                n == LoopNext(root, pos, r.err)
            IN  /\ db' = InSchema(conn.txPath, r.db, db)
                /\ pub' = InSchema(conn.txPath, pub, r.db)
                /\ tx' = [r.tx EXCEPT !.locks = @ \cup LocksTaken(cur, tx, t)]
                /\ totals' = Tally(totals, pos.stage, r.err, n.done)
                /\ pos' = n.pos
                /\ pc' = IF n.pos.idx > Len(root) THEN "commit" ELSE "loop"
                /\ stmts' = Append(stmts, [tbl |-> t, idx |-> pos.idx, j |-> pos.j,
                                           err |-> r.err, dup |-> r.dup, fault |-> fail,
                                           aborted |-> tx.status # "open",
                                           missing |-> tx.status = "open"
                                                       /\ ~cur.tables[t].exists,
                                           logged |-> Logged(pos.stage, r.err)])
    /\ UNCHANGED <<file, handle, op, qi, root, err, hist, nOps, conn, host, app>>

\* importData: tx.Commit(), the deferred tx.Rollback(), and the return of Run
Commit ==
    /\ pc = "commit"
    /\ \E fail \in BOOLEAN :
         /\ fail => tx.status = "open"
         /\ IF tx.status = "failed"
            THEN \* lib/pq rolls back and returns ErrInFailedTransaction
                 /\ Return("commit_failed_tx")
                 /\ tx' = [status |-> "rolledback", rows |-> NoRows, locks |-> {}]
                 /\ UNCHANGED <<db, pub, hist>>
            ELSE IF fail
            THEN /\ Return("commit")
                 /\ tx' = [status |-> "rolledback", rows |-> NoRows, locks |-> {}]
                 /\ UNCHANGED <<db, pub, hist>>
            ELSE /\ db' = InSchema(conn.txPath, CommitRows(db, tx), db)
                 /\ pub' = InSchema(conn.txPath, pub, CommitRows(pub, tx))
                 /\ tx' = [status |-> "committed", rows |-> NoRows, locks |-> {}]
                 /\ pc' = "done"
                 /\ err' = "nil"
                 /\ handle' = "closed"
                 /\ hist' = [okRuns |-> hist.okRuns + (IF op = "Run" THEN 1 ELSE 0),
                             runCounts |-> IF op = "Run" THEN Counts(db') ELSE hist.runCounts,
                             prevRunCounts |-> IF op = "Run" THEN hist.runCounts
                                               ELSE hist.prevRunCounts,
                             loads |-> IF hist.loads >= 0 THEN hist.loads + 1 ELSE hist.loads,
                             loadCounts |-> IF hist.loads = 0 THEN Counts(db')
                                            ELSE hist.loadCounts]
    /\ UNCHANGED <<file, op, qi, root, pos, totals, stmts, nOps, conn, host, app>>

\* the steps of one invocation
RunBody ==
    \/ Connect
    \/ SetSearchPath
    \/ ExecQuery
    \/ ReadFile
    \/ Unmarshal
    \/ SetSearchPath2
    \/ Begin
    \/ InsertStep
    \/ Commit

Next ==
    \/ RunStart
    \/ RunBody

Spec == Init /\ [][Next]_vars

\* the load step alone: connect and importData, without createTables
LoadStart == Enter("importData") /\ UNCHANGED host

NextReload == Next \/ LoadStart

SpecReload == Init /\ [][NextReload]_vars

\* connections the pool replaces in one behaviour
MaxLost == 1

\* the idle pooled connection has gone bad (closed by the server, network
\* reset): database/sql discards it and the next i.db call runs on a new
\* connection, whose search_path is the server's default
ConnLost ==
    /\ handle = "open"
    /\ pc \in {"search_path", "ddl", "read", "parse", "search_path2", "begin"}
    /\ conn.lost < MaxLost
    /\ conn' = [conn EXCEPT !.path = "default", !.lost = @ + 1]
    /\ UNCHANGED <<file, db, tx, handle, op, pc, qi, root, pos, totals, err, stmts, hist,
                   nOps, pub, host, app>>

NextPool == Next \/ ConnLost

SpecPool == Init /\ [][NextPool]_vars

(***************************************************************************)
(* The HTTP routes of the host and AuthMiddleware                          *)
(***************************************************************************)
StatusOK == 200
StatusUnauthorized == 401
StatusNotFound == 404

\* a header value is a string, kept as the sequence of its pieces: a space
\* or a run of other characters
Pieces == {"Bearer", "tok", " "}
MaxHeader == 3
Headers == SeqsUpTo(Pieces, MaxHeader)

Methods == {"GET", "POST"}
Paths == {"/health", "/api/v1/auth/register", "/api/v1/auth/login", "/api/v1/protected/me",
          "/api/v1/me"}
Requests == {r \in [method : Methods, path : Paths, hasAuth : BOOLEAN, auth : Headers] :
               r.hasAuth \/ r.auth = <<>>}

\* c.GetHeader("Authorization"): "" when the request has no such header
GetHeader(r) == IF r.hasAuth THEN r.auth ELSE <<>>

\* strings.Split(s, " ")
RECURSIVE Split(_)
Split(s) ==
    IF \A k \in 1..Len(s) : s[k] # " "
    THEN << s >>
    ELSE LET i == CHOOSE k \in 1..Len(s) : s[k] = " " /\ \A m \in 1..(k - 1) : s[m] # " "
         IN  << SubSeq(s, 1, i - 1) >> \o Split(SubSeq(s, i + 1, Len(s)))

\* AuthMiddleware: the status it aborts the request with, or 0 for c.Next()
AuthMiddleware(r) ==
    IF r.path = "/health" THEN 0
    ELSE IF GetHeader(r) = <<>> THEN StatusUnauthorized
    ELSE LET parts == Split(GetHeader(r))
         IN  IF Len(parts) # 2 \/ parts[1] # <<"Bearer">> THEN StatusUnauthorized
             ELSE IF parts[2] = <<>> THEN StatusUnauthorized
             ELSE 0

\* the group /api/v1/protected is registered without protected.Use
Routes_noMiddleware ==
    {[method |-> "GET", path |-> "/health", protected |-> FALSE],
     [method |-> "POST", path |-> "/api/v1/auth/register", protected |-> FALSE],
     [method |-> "POST", path |-> "/api/v1/auth/login", protected |-> FALSE],
     [method |-> "GET", path |-> "/api/v1/protected/me", protected |-> FALSE]}

\* the routes with a placeholder handler (each answers 200), and whether the
\* group of the route uses AuthMiddleware
Routes ==
    {[method |-> "GET", path |-> "/health", protected |-> FALSE],
     [method |-> "POST", path |-> "/api/v1/auth/register", protected |-> FALSE],
     [method |-> "POST", path |-> "/api/v1/auth/login", protected |-> FALSE],
     [method |-> "GET", path |-> "/api/v1/protected/me", protected |-> TRUE]}

\* the status the router answers request r with
Respond(r) ==
    LET found == {t \in Routes : t.method = r.method /\ t.path = r.path}
    IN  IF found = {} THEN StatusNotFound
        ELSE LET t == CHOOSE x \in found : TRUE
             IN  IF t.protected /\ AuthMiddleware(r) # 0 THEN AuthMiddleware(r)
                 ELSE StatusOK

(***************************************************************************)
(* The host process: main of cmd/server                                    *)
(***************************************************************************)
importerVars == <<file, db, tx, handle, op, pc, qi, root, pos, totals, err, stmts, hist,
                  nOps, pub, conn>>

\* records in the document the host is started on
MaxHostRecords == 2

HostFiles == {[state |-> "missing", foods |-> <<>>], [state |-> "malformed", foods |-> <<>>]}
               \cup {[state |-> "ok", foods |-> d] : d \in DocsWithin(MaxFoods, MaxHostRecords)}

InitHost ==
    /\ file \in HostFiles
    /\ ImporterInit
    /\ \E c \in ConfFiles, e \in [dbUp : BOOLEAN, portFree : BOOLEAN] :
         host = [conf |-> c, env |-> e, cfg |-> NoCfg, main |-> "load_config",
                 srv |-> "none", imp |-> "none", log |-> {}, exit |-> "none",
                 req |-> NoReq, resp |-> 0]
    /\ app = AppFor(db)

Alive == host.main \notin {"off", "exited"}

\* log.Fatalf: os.Exit(1) ends main and every goroutine
Fatal(h, cause) == [h EXCEPT !.main = "exited", !.exit = cause]

\* a key that the file does not set has the value given to v.SetDefault
setDefaults(v) == IF v = "absent" THEN "true" ELSE v

\* cfg.Importer after v.Unmarshal
ImporterConfig(c) ==
    [Enabled |-> setDefaults(c.enabled) = "true",
     ImportOnStartup |-> setDefaults(c.import_on_startup) = "true"]

\* config.LoadConfig and its error branch
LoadConfig ==
    /\ Alive
    /\ host.main = "load_config"
    /\ host' = IF host.conf.readable
               THEN [host EXCEPT !.cfg = ImporterConfig(host.conf), !.main = "go_import"]
               ELSE Fatal(host, "config")
    /\ UNCHANGED <<importerVars, app>>

\* go runFoodImport(cfg)
GoRunFoodImport ==
    /\ Alive
    /\ host.main = "go_import"
    /\ host' = [host EXCEPT !.imp = "spawned", !.main = "connect"]
    /\ UNCHANGED <<importerVars, app>>

\* runFoodImport(cfg) is called without go: main goes on when it has returned
MainRuns_call(h) == h.imp \in {"skipped", "ok", "failed"}

\* whether main can take the step after the go statement: the goroutine is
\* detached and main does not wait for it
MainRuns(h) == TRUE

\* connectToDatabase and its error branch
ConnectToDatabase ==
    /\ Alive
    /\ host.main = "connect"
    /\ MainRuns(host)
    /\ host' = IF host.env.dbUp
               THEN [host EXCEPT !.main = "serve"]
               ELSE Fatal(host, "db")
    /\ UNCHANGED <<importerVars, app>>

\* the router is built and the goroutine of server.ListenAndServe is started;
\* main goes on to wait on quit
GoServe ==
    /\ Alive
    /\ host.main = "serve"
    /\ host' = [host EXCEPT !.srv = "starting", !.main = "wait"]
    /\ UNCHANGED <<importerVars, app>>

\* server.ListenAndServe binds the address, or log.Fatalf
ListenAndServe ==
    /\ Alive
    /\ host.srv = "starting"
    /\ host' = IF host.env.portFree
               THEN [host EXCEPT !.srv = "listening"]
               ELSE Fatal(host, "listen")
    /\ UNCHANGED <<importerVars, app>>

\* SIGINT or SIGTERM is delivered on quit
Signal ==
    /\ Alive
    /\ host.main = "wait"
    /\ host' = [host EXCEPT !.main = "shutdown"]
    /\ UNCHANGED <<importerVars, app>>

\* server.Shutdown and the return of main
Shutdown ==
    /\ Alive
    /\ host.main = "shutdown"
    /\ host' = [Fatal(host, "shutdown") EXCEPT !.srv = "closed"]
    /\ UNCHANGED <<importerVars, app>>

\* the import runs when importer.enabled is true and the startup import is
\* not switched off too
ShouldImport_enabledOnly(c) == c.Enabled

\* the two early returns of runFoodImport
ShouldImport(c) == c.Enabled /\ c.ImportOnStartup

\* runFoodImport up to the call of imp.Run()
RunFoodImport ==
    /\ Alive
    /\ host.imp = "spawned"
    /\ IF ShouldImport(host.cfg)
       THEN /\ Enter("Run")
            /\ host' = [host EXCEPT !.imp = "running",
                                    !.log = @ \cup {"Starting USDA food import process..."}]
       ELSE /\ host' = [host EXCEPT !.imp = "skipped",
                                    !.log = @ \cup {IF ~host.cfg.Enabled
                                                    THEN "USDA food importer is disabled in configuration"
                                                    ELSE "USDA food import on startup is disabled in configuration"}]
            /\ UNCHANGED <<importerVars, app>>

\* a step of imp.Run() in the goroutine of runFoodImport
ImportStep ==
    /\ Alive
    /\ host.imp = "running"
    /\ RunBody

\* the error of Run is passed to log.Fatalf
AfterRun_fatal(h, e) ==
    IF e # "nil"
    THEN Fatal([h EXCEPT !.imp = "failed", !.log = @ \cup {"USDA food import failed"}], "import")
    ELSE [h EXCEPT !.imp = "ok", !.log = @ \cup {"USDA food import completed successfully"}]

\* the host after imp.Run() returned e
AfterRun(h, e) ==
    IF e # "nil"
    THEN [h EXCEPT !.imp = "failed",
                   !.log = @ \cup {"USDA food import failed",
                                   "Server will continue running despite import failure"}]
    ELSE [h EXCEPT !.imp = "ok", !.log = @ \cup {"USDA food import completed successfully"}]

\* runFoodImport: imp.Run() has returned
RunFoodImportReturn ==
    /\ Alive
    /\ host.imp = "running"
    /\ pc \in {"done", "failed"}
    /\ host' = AfterRun(host, err)
    /\ UNCHANGED <<importerVars, app>>

\* the listening server answers one request
ServeHTTP ==
    /\ Alive
    /\ host.srv = "listening"
    /\ \E r \in Requests : host' = [host EXCEPT !.req = r, !.resp = Respond(r)]
    /\ UNCHANGED <<importerVars, app>>

NextHost ==
    \/ LoadConfig
    \/ GoRunFoodImport
    \/ ConnectToDatabase
    \/ GoServe
    \/ ListenAndServe
    \/ Signal
    \/ Shutdown
    \/ RunFoodImport
    \/ ImportStep
    \/ RunFoodImportReturn

SpecHost == InitHost /\ [][NextHost]_vars

\* main and the goroutine of ListenAndServe are scheduled whenever they can
\* run; nothing is assumed of signals or of the progress of the import
SpecHostFair ==
    /\ SpecHost
    /\ WF_vars(LoadConfig)
    /\ WF_vars(GoRunFoodImport)
    /\ WF_vars(ConnectToDatabase)
    /\ WF_vars(GoServe)
    /\ WF_vars(ListenAndServe)
    /\ WF_vars(Shutdown)

\* the host once it listens, with the startup import switched off
ListeningHost ==
    [conf |-> [readable |-> TRUE, enabled |-> "true", import_on_startup |-> "false"],
     env |-> [dbUp |-> TRUE, portFree |-> TRUE],
     cfg |-> [Enabled |-> TRUE, ImportOnStartup |-> FALSE],
     main |-> "wait", srv |-> "listening", imp |-> "skipped",
     log |-> {"USDA food import on startup is disabled in configuration"},
     exit |-> "none", req |-> NoReq, resp |-> 0]

InitHttp ==
    /\ file = [state |-> "missing", foods |-> <<>>]
    /\ ImporterInit
    /\ host = ListeningHost
    /\ app = AppFor(db)

NextHttp == ServeHTTP

SpecHttp == InitHttp /\ [][NextHttp]_vars

(***************************************************************************)
(* A second invocation of Run, concurrent with the first                   *)
(***************************************************************************)
\* the positions of the first run from its createTables on
ActivePhases == {"ddl", "read", "parse", "search_path2", "begin", "loop", "commit", "done"}

\* the second run returns the error e; its transaction, if any, is rolled back
Return2(e) ==
    app' = [app EXCEPT !.run2.pc = "failed", !.run2.err = e,
                       !.run2.tx = [status |-> IF @.status = "none" THEN "none"
                                               ELSE "rolledback",
                                    rows |-> NoRows, locks |-> {}]]

\* the second caller invokes Run: connect and SET search_path
Run2Start ==
    /\ app.run2.pc = "idle"
    /\ \E fail \in BOOLEAN :
         IF fail THEN Return2("connect")
         ELSE app' = [app EXCEPT !.run2.pc = "ddl"]
    /\ UNCHANGED <<importerVars, host>>

\* createTables of the second run: one i.db.Exec(query)
ExecQuery2 ==
    /\ app.run2.pc = "ddl"
    /\ ~Blocked(queries[app.run2.qi], tx.locks)
    /\ \E fail \in BOOLEAN :
         LET q == queries[app.run2.qi]
             r == ExecDDL(db, q)
         IN  IF fail \/ r.err
             THEN Return2("tables") /\ db' = db
             ELSE /\ db' = r.db
                  /\ app' = [app EXCEPT
                        !.diary = DropCascade(@, db, q),
                        !.run2.qi = @ + 1,
                        !.run2.pc = IF app.run2.qi = Len(queries) THEN "begin" ELSE "ddl",
                        !.run2.hit = @ \cup (IF q.op = "drop" /\ op = "Run" /\ pc \in ActivePhases
                                             THEN {nOps} ELSE {})]
    /\ UNCHANGED <<file, tx, handle, op, pc, qi, root, pos, totals, err, stmts, hist, nOps,
                   pub, conn, host>>

\* importData of the second run up to i.db.Begin()
Begin2 ==
    /\ app.run2.pc = "begin"
    /\ \E fail \in BOOLEAN :
         IF file.state = "missing" THEN Return2("read")
         ELSE IF file.state = "malformed" THEN Return2("parse")
         ELSE IF fail THEN Return2("begin")
         ELSE app' = [app EXCEPT
                !.run2.tx = [status |-> "open", rows |-> NoRows, locks |-> {}],
                !.run2.pc = IF Len(file.foods) = 0 THEN "commit" ELSE "loop"]
    /\ UNCHANGED <<importerVars, host>>

\* importData of the second run: one tx.Exec of the loop
InsertStep2 ==
    /\ app.run2.pc = "loop"
    /\ LET p == app.run2.pos
           f == file.foods[p.idx]
           t == StageTable[p.stage]
       IN  /\ ~KeyWait(t, RowAt(f, p), tx)
           /\ \E fail \in BOOLEAN :
                /\ fail => app.run2.tx.status = "open"
                /\ LET r == TxExec(db, app.run2.tx, t, RowAt(f, p), fail)
                       n == LoopNext(file.foods, p, r.err)
                   IN  /\ db' = r.db
                       /\ app' = [app EXCEPT
                             !.run2.tx = [r.tx EXCEPT
                                            !.locks = @ \cup LocksTaken(db, app.run2.tx, t)],
                             !.run2.pos = n.pos,
                             !.run2.pc = IF n.pos.idx > Len(file.foods) THEN "commit"
                                         ELSE "loop"]
    /\ UNCHANGED <<file, tx, handle, op, pc, qi, root, pos, totals, err, stmts, hist, nOps,
                   pub, conn, host>>

\* importData of the second run: tx.Commit() and the return of Run
Commit2 ==
    /\ app.run2.pc = "commit"
    /\ \E fail \in BOOLEAN :
         /\ fail => app.run2.tx.status = "open"
         /\ IF app.run2.tx.status = "failed"
            THEN Return2("commit_failed_tx") /\ db' = db
            ELSE IF fail
            THEN Return2("commit") /\ db' = db
            ELSE /\ db' = CommitRows(db, app.run2.tx)
                 /\ app' = [app EXCEPT
                       !.run2.pc = "done",
                       !.run2.tx = [status |-> "committed", rows |-> NoRows, locks |-> {}]]
    /\ UNCHANGED <<file, tx, handle, op, pc, qi, root, pos, totals, err, stmts, hist, nOps,
                   pub, conn, host>>

InitRace ==
    /\ file \in HostFiles
    /\ ImporterInit
    /\ host = HostOff
    /\ app = [AppFor(db) EXCEPT !.run2.pc = "idle"]

\* the first caller invokes Run, once
Run1Start == nOps = 0 /\ RunStart

NextRace ==
    \/ Run1Start
    \/ RunBody
    \/ Run2Start
    \/ ExecQuery2
    \/ Begin2
    \/ InsertStep2
    \/ Commit2

SpecRace == InitRace /\ [][NextRace]_vars

(***************************************************************************)
(* FoodHandler.SearchFoods                                                 *)
(***************************************************************************)
DefaultLimit == 20
MaxLimit == 100
StatusBadRequest == 400
StatusInternalServerError == 500

\* how far the arguments of a search range around 0 and around MaxLimit
MaxArg == 2
\* search requests in one behaviour
MaxSearches == 1
\* the values of the query parameters limit and offset
LimitArgs == (-MaxArg..MaxArg) \cup ((DefaultLimit - 1)..(DefaultLimit + 1))
             \cup ((MaxLimit - MaxArg)..(MaxLimit + MaxArg))
OffsetArgs == (-MaxArg..MaxArg) \cup ((MaxLimit - 1)..(MaxLimit + 1)) \cup {2 * MaxLimit + 1}
\* the values COUNT(*) can return
Totals == (0..MaxArg) \cup ((MaxLimit - 1)..(MaxLimit + 1)) \cup {2 * MaxLimit, 2 * MaxLimit + 1}

\* a query parameter of type int with a default: absent, or its value
IntParams(S) == {[present |-> FALSE, value |-> 0]} \cup [present : {TRUE}, value : S]
\* c.ShouldBindQuery for a field tagged form:"name,default=d"
BindInt(a, d) == IF a.present THEN a.value ELSE d

\* Go's integer division, which truncates toward zero
GoDiv(a, b) ==
    IF (a >= 0) = (b > 0) THEN (IF a >= 0 THEN a ELSE -a) \div (IF b > 0 THEN b ELSE -b)
    ELSE -((IF a >= 0 THEN a ELSE -a) \div (IF b > 0 THEN b ELSE -b))

\* the upper clamp is missing
ClampLimit_noMax(l) == IF l <= 0 THEN DefaultLimit ELSE l

\* req.Limit after the validation of the handler
ClampLimit(l) == IF l <= 0 THEN DefaultLimit ELSE IF l > MaxLimit THEN MaxLimit ELSE l
\* req.Offset after the validation of the handler
ClampOffset(o) == IF o < 0 THEN 0 ELSE o

\* totalPages of the response
TotalPages(total, limit) == IF total > 0 THEN GoDiv(total + limit - 1, limit) ELSE 0
\* page of the response
Page(offset, limit) == GoDiv(offset, limit) + 1

\* the handler for query q and parameters l, o, when the repository answers
\* with total rows or fails
SearchFoodsResult(q, l, o, total, fail) ==
    LET limit == ClampLimit(BindInt(l, DefaultLimit))
        offset == ClampOffset(BindInt(o, 0))
        call == [NoSearch EXCEPT !.served = app.search.served + 1,
                                 !.limit = BindInt(l, DefaultLimit), !.offset = BindInt(o, 0)]
    IN  IF q = "" THEN [call EXCEPT !.status = StatusBadRequest]
        ELSE IF fail
        THEN [call EXCEPT !.status = StatusInternalServerError,
                          !.repoLimit = limit, !.repoOffset = offset]
        ELSE [call EXCEPT !.status = StatusOK, !.repoLimit = limit, !.repoOffset = offset,
                          !.total = total, !.totalPages = TotalPages(total, limit),
                          !.page = Page(offset, limit)]

\* FoodHandler.SearchFoods serves one request
SearchFoods ==
    /\ host.srv = "listening"
    /\ app.search.served < MaxSearches
    /\ \E q \in {"", "milk"}, l \in IntParams(LimitArgs), o \in IntParams(OffsetArgs),
          total \in Totals, fail \in BOOLEAN :
         app' = [app EXCEPT !.search = SearchFoodsResult(q, l, o, total, fail)]
    /\ UNCHANGED <<importerVars, host>>

NextSearch == SearchFoods

SpecSearch == InitHttp /\ [][NextSearch]_vars

(***************************************************************************)
(* The diary: diary.food_entries, its repository and its handlers          *)
(***************************************************************************)
StatusNoContent == 204
StatusForbidden == 403

\* handler invocations (update or delete) in one behaviour
MaxRequests == 2
\* calls of CopyFoodEntries in one behaviour
MaxCopies == 1

\* SELECT ... WHERE id = $1: the rows found (none: the repository returns nil, nil)
GetFoodEntryByID(rows, id) == {e \in rows : e.id = id}

\* UPDATE diary.food_entries SET amount_grams = $1 WHERE id = $n; without a
\* field to set the repository returns at once
UpdateFoodEntry(rows, id, grams) ==
    IF grams = NULL THEN rows
    ELSE {IF e.id = id THEN [e EXCEPT !.amount_grams = grams] ELSE e : e \in rows}

\* DELETE FROM diary.food_entries WHERE id = $1
DeleteFoodEntry(rows, id) == {e \in rows : e.id # id}

\* gen_random_uuid() for each row of an INSERT ... SELECT: ids not yet in use
RECURSIVE FreshCopies(_, _, _)
FreshCopies(S, next, target) ==
    IF S = {} THEN {}
    ELSE LET e == CHOOSE x \in S : \A y \in S : x.id <= y.id
         IN  {[e EXCEPT !.id = next, !.date = target]}
             \cup FreshCopies(S \ {e}, next + 1, target)

\* the transaction of CopyFoodEntries: DELETE the entries of the target date,
\* then INSERT ... SELECT the entries of the source date
CopyFoodEntries(d, userID, sourceDate, targetDate) ==
    LET kept == {e \in d.rows : ~(e.user_id = userID /\ e.date = targetDate)}
        src == {e \in kept : e.user_id = userID /\ e.date = sourceDate}
    IN  [d EXCEPT !.rows = kept \cup FreshCopies(src, d.nextId, targetDate),
                  !.nextId = @ + Cardinality(src)]

\* the handler lets everybody pass
Owns_anyone(e, userID) == TRUE

\* existingEntry.UserID != userID of the two handlers
Owns(e, userID) == e.user_id = userID

\* DiaryHandler.UpdateFoodEntry and DeleteFoodEntry up to the ownership check
EntryCheck(s) ==
    /\ host.srv = "listening"
    /\ app.diary.reqs[s].pc \in {"idle", "done"}
    /\ app.diary.served < MaxRequests
    /\ \E kind \in {"update", "delete"}, id \in EntryIds, u \in Users,
          g \in {NULL, 2}, fail \in BOOLEAN :
         LET found == GetFoodEntryByID(app.diary.rows, id)
             r == [NoEntryReq EXCEPT !.kind = kind, !.id = id, !.user = u,
                                     !.grams = IF kind = "update" THEN g ELSE NULL]
         IN  /\ kind = "delete" => g = NULL
             /\ app' = [app EXCEPT
                  !.diary.served = @ + 1,
                  !.diary.reqs[s] =
                     IF fail
                     THEN [r EXCEPT !.pc = "done", !.status = StatusInternalServerError]
                     ELSE IF found = {}
                     THEN [r EXCEPT !.pc = "done", !.status = StatusNotFound]
                     ELSE IF \E e \in found : ~Owns(e, u)
                     THEN [r EXCEPT !.pc = "done", !.status = StatusForbidden]
                     ELSE [r EXCEPT !.pc = "checked"]]
    /\ UNCHANGED <<importerVars, host>>

\* the rest of the two handlers: the repository call by id and the response
EntryAct(s) ==
    /\ app.diary.reqs[s].pc = "checked"
    /\ \E fail \in BOOLEAN :
         LET r == app.diary.reqs[s]
             rows == app.diary.rows
             after == IF fail THEN rows
                      ELSE IF r.kind = "update" THEN UpdateFoodEntry(rows, r.id, r.grams)
                      ELSE DeleteFoodEntry(rows, r.id)
         IN  app' = [app EXCEPT
                !.diary.rows = after,
                !.diary.reqs[s] =
                   [r EXCEPT !.pc = "done",
                             !.changed = rows \ after,
                             !.status = IF fail THEN StatusInternalServerError
                                        ELSE IF r.kind = "update" THEN StatusOK
                                        ELSE StatusNoContent]]
    /\ UNCHANGED <<importerVars, host>>

\* DiaryHandler.CopyDiaryEntries: the repository call commits or rolls back
CopyDiaryEntries ==
    /\ host.srv = "listening"
    /\ app.diary.copy.n < MaxCopies
    /\ \E u \in Users, sourceDate \in Dates, targetDate \in Dates, fail \in BOOLEAN :
         LET d == IF fail THEN app.diary
                  ELSE CopyFoodEntries(app.diary, u, sourceDate, targetDate)
         IN  app' = [app EXCEPT
                !.diary = [d EXCEPT !.copy = [n |-> app.diary.copy.n + 1, ok |-> ~fail,
                                              user |-> u, source |-> sourceDate,
                                              target |-> targetDate,
                                              before |-> app.diary.rows,
                                              after |-> d.rows]]]
    /\ UNCHANGED <<importerVars, host>>

InitDiary ==
    /\ file = [state |-> "missing", foods |-> <<>>]
    /\ ImporterInit
    /\ host = ListeningHost
    /\ app = AppFor(db)

NextDiary ==
    \/ \E s \in Slots : EntryCheck(s)
    \/ \E s \in Slots : EntryAct(s)
    \/ CopyDiaryEntries

SpecDiary == InitDiary /\ [][NextDiary]_vars

(***************************************************************************)
(* foodRepository.GetFoodByID beside an import run                         *)
(***************************************************************************)
\* calls of GetFoodByID in one behaviour
MaxReads == 1

\* what the committed dataset d holds for the food fdcID: its foods row and
\* its food_nutrients rows
Lookup(d, fdcID) ==
    [food |-> SelectSeq(d.tables["foods"].rows, LAMBDA r : r.fdc_id = fdcID),
     nutrients |-> SelectSeq(d.tables["food_nutrients"].rows, LAMBDA r : r.fdc_id = fdcID)]

\* GetFoodByID: the first query, SELECT ... FROM nutrition.foods WHERE fdc_id = $1
QueryFood ==
    /\ app.read.pc \in {"idle", "done"}
    /\ app.read.n < MaxReads
    /\ \E fdcID \in Ids \cup {OldId}, fail \in BOOLEAN :
         LET call == [NoRead EXCEPT !.n = app.read.n + 1, !.fdc = fdcID]
             now == Lookup(db, fdcID)
         IN  app' = [app EXCEPT !.read =
                IF fail \/ ~db.tables["foods"].exists
                THEN [call EXCEPT !.pc = "done", !.err = TRUE]
                ELSE IF now.food = <<>>
                THEN [call EXCEPT !.pc = "done"]
                ELSE [call EXCEPT !.pc = "food", !.food = now.food, !.v1 = now]]
    /\ UNCHANGED <<importerVars, host>>

\* GetFoodByID: the second query, getFoodNutrients, and the return
QueryNutrients ==
    /\ app.read.pc = "food"
    /\ \E fail \in BOOLEAN :
         LET now == Lookup(db, app.read.fdc) IN
         app' = [app EXCEPT !.read =
            IF fail \/ ~db.tables["food_nutrients"].exists
            THEN [@ EXCEPT !.pc = "done", !.err = TRUE, !.food = <<>>]
            ELSE [@ EXCEPT !.pc = "done", !.nutrients = now.nutrients, !.v2 = now]]
    /\ UNCHANGED <<importerVars, host>>

InitRead ==
    /\ file \in HostFiles
    /\ ImporterInit
    /\ host = HostOff
    /\ app = AppFor(db)

NextRead ==
    \/ Run1Start
    \/ RunBody
    \/ QueryFood
    \/ QueryNutrients

SpecRead == InitRead /\ [][NextRead]_vars

(***************************************************************************)
(* The standalone importer: importFoundationFoods of usda_importer         *)
(***************************************************************************)
\* one tx.Exec of the standalone loop: s is [tx, tot, k], k the number of
\* the statement; faults[k] says whether statement k raises an error of its own
StandaloneExec(d, s, t, row, faults) ==
    LET r == TxExec(d, s.tx, t, row, s.k <= Len(faults) /\ faults[s.k])
    IN  [tx |-> r.tx, tot |-> s.tot, k |-> s.k + 1, err |-> r.err]

\* for _, input := range food.InputFoods
RECURSIVE StandaloneInputs(_, _, _, _, _)
StandaloneInputs(d, s, food, j, faults) ==
    IF j > food.InputFoods THEN s
    ELSE StandaloneInputs(d, StandaloneExec(d, s, "input_foods", [id |-> 0, fdc_id |-> food.FdcId],
                                            faults),
                          food, j + 1, faults)

\* for _, portion := range food.FoodPortions
RECURSIVE StandalonePortions(_, _, _, _, _)
StandalonePortions(d, s, food, j, faults) ==
    IF j > Len(food.FoodPortions) THEN s
    ELSE LET e == StandaloneExec(d, s, "food_portions",
                                 [id |-> food.FoodPortions[j], fdc_id |-> food.FdcId], faults)
         IN  StandalonePortions(d, IF e.err THEN e
                                   ELSE [e EXCEPT !.tot.Portions = @ + 1],
                                food, j + 1, faults)

\* for _, attr := range food.FoodAttributes
RECURSIVE StandaloneAttrs(_, _, _, _, _)
StandaloneAttrs(d, s, food, j, faults) ==
    IF j > food.FoodAttributes THEN s
    ELSE LET e == StandaloneExec(d, s, "food_attributes", [id |-> 0, fdc_id |-> food.FdcId],
                                 faults)
         IN  StandaloneAttrs(d, [e EXCEPT !.tot.Attrs = @ + 1], food, j + 1, faults)

\* for _, nutrient := range food.FoodNutrients
RECURSIVE StandaloneNutrients(_, _, _, _, _)
StandaloneNutrients(d, s, food, j, faults) ==
    IF j > Len(food.FoodNutrients) THEN s
    ELSE LET nutrient == food.FoodNutrients[j]
             nil == nutrient.FoodNutrientDerivation = <<>>
             derivationCode == IF nil THEN "" ELSE nutrient.FoodNutrientDerivation[1].Code
             derivationDesc == IF nil THEN ""
                               ELSE nutrient.FoodNutrientDerivation[1].Description
             e == StandaloneExec(d, s, "food_nutrients",
                                 [id |-> nutrient.Id, fdc_id |-> food.FdcId,
                                  derivation_code |-> derivationCode,
                                  derivation_desc |-> derivationDesc], faults)
         IN  StandaloneNutrients(d, IF e.err THEN e
                                    ELSE [e EXCEPT !.tot.Nutrients = @ + 1],
                                 food, j + 1, faults)

\* for _, food := range root.FoundationFoods
RECURSIVE StandaloneFoods(_, _, _, _, _)
StandaloneFoods(d, s, r, i, faults) ==
    IF i > Len(r) THEN s
    ELSE LET food == r[i]
             e == StandaloneExec(d, s, "foods", [id |-> food.FdcId, fdc_id |-> food.FdcId],
                                 faults)
             body == StandaloneNutrients(d,
                        StandaloneAttrs(d,
                           StandalonePortions(d,
                              StandaloneInputs(d, e, food, 1, faults),
                              food, 1, faults),
                           food, 1, faults),
                        food, 1, faults)
         IN  StandaloneFoods(d,
                 IF e.err THEN e                                    \* continue
                 ELSE [body EXCEPT !.tot.Foods = @ + 1],
                 r, i + 1, faults)

\* importFoundationFoods from db.Begin() on, on the tables d: the loop, then
\* tx.Commit() (commitFail: the COMMIT itself fails) and the deferred Rollback
importFoundationFoods(d, r, faults, commitFail) ==
    LET s == StandaloneFoods(d, [tx |-> [NoTx EXCEPT !.status = "open"], tot |-> ZeroTotals,
                                 k |-> 1, err |-> FALSE], r, 1, faults)
        ok == s.tx.status = "open" /\ ~commitFail
    IN  [ok |-> ok, db |-> IF ok THEN CommitRows(d, s.tx) ELSE d,
         totals |-> s.tot, issued |-> s.k - 1]

TypeOK ==
    /\ file \in Files
    /\ pc \in {"idle", "connect", "search_path", "ddl", "read", "parse", "search_path2",
               "begin", "loop", "commit", "done", "failed"}
    /\ tx.status \in {"none", "open", "failed", "committed", "rolledback"}
    /\ handle \in {"nil", "open", "closed", "unclosed"}
    /\ nOps \in 0..MaxRuns
    /\ conn.path \in {"default", "target"}
    /\ host.main \in {"off", "load_config", "go_import", "connect", "serve", "wait",
                      "shutdown", "exited"}
    /\ host.srv \in {"none", "starting", "listening", "closed"}
    /\ host.imp \in {"none", "spawned", "skipped", "running", "ok", "failed"}
    /\ host.exit \in {"none", "config", "db", "listen", "shutdown"}


(***************************************************************************)
(* Properties                                                              *)
(***************************************************************************)
Rows(t) == db.tables[t].rows
Issued == 1..Len(stmts)

\* C1: after Run has returned successfully, every row of input_foods,
\* food_portions, food_attributes and food_nutrients carries the fdc_id of a
\* row of foods.
C1_ChildRowsHaveFood ==
    (op = "Run" /\ pc = "done") =>
        \A t \in ChildTables : \A k \in 1..Len(Rows(t)) :
            HasFood(Rows("foods"), Rows(t)[k].fdc_id)

C1_Witness ==
    /\ op = "Run" /\ pc = "done"
    /\ Rows("food_portions") # <<>> /\ Rows("food_nutrients") # <<>>

\* C2: what a reader can see of a table changes only by the table being
\* dropped, being recreated empty, or by the commit of the load, which shows
\* all rows of the run at once; while a run is loading, the reader sees the
\* five tables empty.
C2_NoPartialDataset ==
    /\ []((op = "Run" /\ pc \in {"loop", "commit"}) =>
             \A t \in TableNames : db.tables[t].exists /\ Rows(t) = <<>>)
    /\ [][\A t \in TableNames :
             \/ db'.tables[t].rows = db.tables[t].rows
             \/ ~db'.tables[t].exists
             \/ db'.tables[t].rows = <<>>
             \/ pc = "commit" /\ pc' = "done"
                  /\ db'.tables[t].rows = db.tables[t].rows \o tx.rows[t]]_vars

C2_Witness ==
    /\ op = "Run" /\ pc = "commit" /\ tx.status = "open"
    /\ tx.rows["foods"] # <<>> /\ tx.rows["food_nutrients"] # <<>>
    /\ Rows("foods") = <<>>

\* C3: when the INSERT of a food record returns an error, the transaction is
\* not aborted: later statements are not rejected and the commit does not
\* fail because of it.
C3_FoodErrorKeepsTransaction ==
    \A k \in Issued :
        (stmts[k].tbl = "foods" /\ stmts[k].fault) =>
            /\ tx.status # "failed"
            /\ \A m \in Issued : ~stmts[m].aborted
            /\ err # "commit_failed_tx"

\* C4: when Run fails in connect, createTables, ReadFile or Unmarshal, no
\* transaction was begun and no INSERT was issued; after a read or parse
\* failure the five tables exist and are empty.
C4_FatalBeforeLoad ==
    (op = "Run" /\ pc = "failed" /\ err \in {"connect", "tables", "read", "parse"}) =>
        /\ tx.status = "none"
        /\ stmts = <<>>
        /\ err \in {"read", "parse"} =>
              \A t \in TableNames : db.tables[t].exists /\ Rows(t) = <<>>

C4_Witness ==
    /\ op = "Run" /\ pc = "failed" /\ err = "parse"
    /\ hist.okRuns = 0 /\ nOps = 1

\* C5: when the INSERT of a food record returns an error, no INSERT is issued
\* for the children of that record, and the record is not counted in
\* totalFoods.
C5_FailedFoodSkipsChildren ==
    /\ \A k \in Issued :
          (stmts[k].tbl = "foods" /\ stmts[k].err) =>
              \A m \in Issued : stmts[m].idx = stmts[k].idx => m = k
    /\ totals.Foods <= Cardinality({k \in Issued : stmts[k].tbl = "foods" /\ ~stmts[k].err})

C5_Witness ==
    /\ pc = "commit"
    /\ \E k \in Issued :
          /\ stmts[k].tbl = "foods" /\ stmts[k].err
          /\ FoodSize(root[stmts[k].idx]) > 1

\* C6: when the INSERT of a portion or a nutrient returns an error, only that
\* row is missing from the committed result: the statements after it are not
\* rejected, the load commits, and their rows are in the tables.
C6_ChildErrorLosesOneRow ==
    \A k \in Issued :
        (stmts[k].tbl \in {"food_portions", "food_nutrients"} /\ stmts[k].fault) =>
            /\ \A m \in Issued : m > k => ~stmts[m].err
            /\ err # "commit_failed_tx"
            /\ pc = "done" =>
                  \A m \in Issued : m # k => HasFood(Rows(stmts[m].tbl), root[stmts[m].idx].FdcId)

Unique(rows) == \A a, b \in 1..Len(rows) : rows[a].id = rows[b].id => a = b

\* C7: no two rows of foods, of food_portions or of food_nutrients share a
\* key, in the committed tables and in what the load transaction sees; an
\* INSERT of a key that is already present returns no error.
C7_KeysUnique ==
    /\ \A t \in {"foods", "food_portions", "food_nutrients"} : Unique(Visible(db, tx, t))
    /\ \A k \in Issued :
          (stmts[k].dup /\ ~stmts[k].fault /\ ~stmts[k].aborted) => ~stmts[k].err

C7_Witness ==
    /\ pc = "done"
    /\ \E k \in Issued : stmts[k].tbl = "foods" /\ stmts[k].dup /\ ~stmts[k].err
    /\ \E k \in Issued : stmts[k].tbl # "foods" /\ stmts[k].dup /\ ~stmts[k].err

\* C8: a second successful load over tables that were recreated before the
\* first one leaves the row counts of foods, food_portions and food_nutrients
\* as the first load left them and doubles those of input_foods and
\* food_attributes.
C8_ReloadCounts ==
    hist.loads = 2 =>
        /\ \A t \in {"foods", "food_portions", "food_nutrients"} :
              Len(Rows(t)) = hist.loadCounts[t]
        /\ \A t \in {"input_foods", "food_attributes"} :
              Len(Rows(t)) = 2 * hist.loadCounts[t]

C8_Witness ==
    /\ hist.loads = 2
    /\ \A t \in {"foods", "input_foods", "food_portions"} : Len(Rows(t)) > 0

\* C9: a second successful Run leaves in each of the five tables the row
\* count the previous successful Run left.
C9_RunTwiceSameCounts ==
    hist.okRuns >= 2 => hist.runCounts = hist.prevRunCounts

C9_Witness ==
    /\ hist.okRuns = 2
    /\ hist.runCounts["foods"] > 0 /\ hist.runCounts["input_foods"] > 0

\* the phase of the run's state machine that a position belongs to
Phase(c) ==
    CASE c \in {"idle", "connect"} -> "disconnected"
      [] c \in {"search_path", "ddl"} -> "connected"
      [] c \in {"read", "parse", "search_path2", "begin"} -> "schema-reset"
      [] c \in {"loop", "commit"} -> "loading"
      [] c = "done" -> "committed"
      [] c = "failed" -> "failed"

PhaseOrder ==
    {<<"disconnected", "connected">>, <<"connected", "schema-reset">>,
     <<"schema-reset", "loading">>, <<"loading", "committed">>}
       \cup {<<ph, "failed">> : ph \in {"disconnected", "connected", "schema-reset", "loading"}}

\* C10: a run moves through disconnected, connected, schema-reset, loading,
\* committed in this order and enters none twice; it moves to failed only
\* from a failing connect, createTables, ReadFile, Unmarshal, Begin or Commit,
\* never because an INSERT had failed, and then nothing is committed.
C10_LinearPhases ==
    [][(op' = "Run" /\ Phase(pc') # Phase(pc)) =>
          /\ \/ <<Phase(pc), Phase(pc')>> \in PhaseOrder
             \/ Phase(pc) \in {"disconnected", "committed", "failed"}
                  /\ pc' = "connect" /\ nOps' = nOps + 1
          /\ Phase(pc') = "failed" =>
                /\ db' = db
                /\ tx.status # "failed"]_vars


\* the place of each table in the order of the inserts of one food record
InsertRank == [t \in TableNames |->
                 CASE t = "foods" -> 0
                   [] t = "input_foods" -> 1
                   [] t = "food_portions" -> 2
                   [] t = "food_attributes" -> 3
                   [] t = "food_nutrients" -> 4]

\* C11: the INSERTs of a load are issued food record by food record in source
\* order; within a record the foods insert comes first and the children
\* follow in the order input_foods, food_portions, food_attributes,
\* food_nutrients, each list in its own order.
C11_InsertOrder ==
    \A a, b \in Issued :
        a < b =>
            \/ stmts[a].idx < stmts[b].idx
            \/ /\ stmts[a].idx = stmts[b].idx
               /\ \/ InsertRank[stmts[a].tbl] < InsertRank[stmts[b].tbl]
                  \/ /\ stmts[a].tbl = stmts[b].tbl
                     /\ stmts[a].tbl # "foods"
                     /\ stmts[a].j < stmts[b].j

C11_Witness ==
    /\ pc = "commit" /\ Len(stmts) = 4
    /\ stmts[1].tbl = "foods" /\ stmts[2].tbl = "input_foods"
    /\ stmts[3].tbl = "food_portions" /\ stmts[4].tbl = "foods"

\* C12: after a successful Run, totalFoods, totalPortions and totalNutrients
\* are the numbers of rows the run inserted into foods, food_portions and
\* food_nutrients (the tables were empty when the load began).
C12_TotalsAreRowCounts ==
    (op = "Run" /\ pc = "done") =>
        /\ totals.Foods = Len(Rows("foods"))
        /\ totals.Portions = Len(Rows("food_portions"))
        /\ totals.Nutrients = Len(Rows("food_nutrients"))

Kept == {i \in 1..Len(root) :
            \E k \in Issued : stmts[k].tbl = "foods" /\ stmts[k].idx = i /\ ~stmts[k].err}

RECURSIVE AttrsOf(_)
AttrsOf(S) ==
    IF S = {} THEN 0
    ELSE LET i == CHOOSE x \in S : TRUE IN root[i].FoodAttributes + AttrsOf(S \ {i})

\* C14: an error of an INSERT into input_foods or food_attributes writes no
\* log line and does not stop the remaining inserts of the run: no later
\* statement is rejected because of it and no later food record is skipped;
\* totalAttrs is the number of attribute entries of the food records that
\* were not skipped, failed inserts included.
C14_SilentErrorsSwallowed ==
    /\ \A k \in Issued :
          stmts[k].tbl \in {"input_foods", "food_attributes"} => ~stmts[k].logged
    /\ \A k \in Issued :
          (stmts[k].tbl \in {"input_foods", "food_attributes"} /\ stmts[k].fault) =>
              \A m \in Issued : m > k => ~stmts[m].aborted
    /\ pc = "commit" =>
          /\ \A i \in Kept :
                Cardinality({k \in Issued : stmts[k].idx = i}) = FoodSize(root[i])
          /\ totals.Attrs = AttrsOf(Kept)


\* C20: the row written to food_nutrients for a nutrient entry without a
\* derivation object has derivation_code = "" and derivation_desc = "" (not
\* NULL); for an entry with one, the two columns hold its code and its
\* description.
C20_DerivationColumns ==
    (tx.status = "open" \/ pc = "done") =>
        \A k \in Issued :
            (stmts[k].tbl = "food_nutrients" /\ ~stmts[k].err /\ ~stmts[k].dup) =>
                LET n == root[stmts[k].idx].FoodNutrients[stmts[k].j]
                    d == n.FoodNutrientDerivation
                    rows == Visible(db, tx, "food_nutrients")
                IN  \E i \in 1..Len(rows) :
                       /\ rows[i].id = n.Id
                       /\ rows[i].derivation_code = (IF d = <<>> THEN "" ELSE d[1].Code)
                       /\ rows[i].derivation_desc = (IF d = <<>> THEN "" ELSE d[1].Description)

C20_Witness ==
    /\ op = "Run" /\ pc = "done"
    /\ \E i \in 1..Len(Rows("food_nutrients")) : Rows("food_nutrients")[i].derivation_code = ""
    /\ \E i \in 1..Len(Rows("food_nutrients")) : Rows("food_nutrients")[i].derivation_code = "A"


\* C15: every DROP, CREATE and INSERT of a run takes effect in the target
\* schema, whichever connection the pool hands out: nothing is created in the
\* default schema and the connection that holds the load transaction has the
\* search_path of the run.
C15_TargetSchemaOnly ==
    /\ pub = FreshStore
    /\ (tx.status \in {"open", "failed"}) => conn.txPath = "target"


\* C16: when Run returns an error the host writes the failure to its log and
\* goes on: the step that handles the error leaves main and the HTTP server
\* as they are and the process alive.
C16_ImportFailureKeepsServer ==
    [][(host.imp = "running" /\ pc = "failed" /\ host'.imp # "running") =>
          /\ host'.imp = "failed"
          /\ "USDA food import failed" \in host'.log
          /\ host'.main = host.main
          /\ host'.srv = host.srv
          /\ host'.exit = "none"]_vars

C16_Witness ==
    /\ host.imp = "failed"
    /\ host.srv = "listening"
    /\ host.exit = "none"

\* C17: once the configuration is loaded and the database accepts the host's
\* connection, the server reaches the listening state, whatever the import
\* goroutine does.
C17_ListensRegardless ==
    (host.main = "go_import" /\ host.env.dbUp) ~> (host.srv = "listening")

\* C17 (amended): once the configuration is loaded, if the database accepts
\* the host's connection and the listen address is free, the server reaches
\* the listening state unless a shutdown signal ends the process first,
\* whatever the import goroutine does.
C17_ListensUnlessBindFailsOrShutdown ==
    (host.main = "go_import" /\ host.env.dbUp /\ host.env.portFree)
        ~> (host.srv = "listening" \/ host.main \in {"shutdown", "exited"})

C17_Witness ==
    /\ host.srv = "listening"
    /\ host.imp = "running"
    /\ pc = "loop"

\* C18: when the configuration file sets importer.enabled or
\* importer.import_on_startup to false, no step of the host invokes Run or
\* changes the tables.
C18_DisabledNeverImports ==
    [][(host.conf.readable /\ (host.conf.enabled = "false"
                               \/ host.conf.import_on_startup = "false")) =>
          UNCHANGED <<db, pub, op, nOps, stmts>>]_vars

C18_Witness ==
    /\ host.conf.enabled = "true"
    /\ host.conf.import_on_startup = "false"
    /\ host.imp = "skipped"
    /\ host.srv = "listening"


StmtsOf(i) == {k \in Issued : stmts[k].idx = i}
\* food record i has no input foods, portions, attributes or nutrients
Childless(i) == FoodSize(root[i]) = 1

\* C21: after a successful run, a food record without input foods, portions,
\* attributes and nutrients has added exactly one row to foods and no row to
\* a child table: one statement was issued for it, on foods, and it inserted
\* a row.
C21_ChildlessFoodOneRow ==
    (op = "Run" /\ pc = "done") =>
        \A i \in 1..Len(root) : Childless(i) =>
            /\ Cardinality(StmtsOf(i)) = 1
            /\ \A k \in StmtsOf(i) :
                   stmts[k].tbl = "foods" /\ ~stmts[k].err /\ ~stmts[k].dup

\* C21 (amended): after a successful run, exactly one statement was issued
\* for a food record without children, on foods; it inserted a row when no
\* earlier record of the document has the same fdcId, and was skipped by ON
\* CONFLICT otherwise.
C21_ChildlessFoodOneRowUnlessRepeated ==
    (op = "Run" /\ pc = "done") =>
        \A i \in 1..Len(root) : Childless(i) =>
            /\ Cardinality(StmtsOf(i)) = 1
            /\ \A k \in StmtsOf(i) :
                   /\ stmts[k].tbl = "foods" /\ ~stmts[k].err
                   /\ stmts[k].dup <=> \E j \in 1..(i - 1) : root[j].FdcId = root[i].FdcId

C21_Witness ==
    /\ op = "Run" /\ pc = "done"
    /\ Len(root) = 2 /\ Childless(1) /\ Childless(2)
    /\ root[1].FdcId # root[2].FdcId
    /\ Len(Rows("foods")) = 2
    /\ \A t \in ChildTables : Rows(t) = <<>>


\* C22: whenever the search handler calls the repository, the limit it passes
\* is in 1..100 (20 when the given limit is absent or not positive, 100 when it
\* exceeds 100) and the offset is not negative; a successful response reports
\* total_pages = ceil(total / limit), 0 when total is 0, and
\* page = offset div limit + 1.
C22_SearchPagination ==
    LET c == app.search IN
    /\ c.status \in {StatusOK, StatusInternalServerError} =>
           /\ c.repoLimit \in 1..100
           /\ c.limit <= 0 => c.repoLimit = 20
           /\ c.limit > 100 => c.repoLimit = 100
           /\ c.limit \in 1..100 => c.repoLimit = c.limit
           /\ c.repoOffset >= 0
    /\ c.status = StatusOK =>
           /\ c.totalPages * c.repoLimit >= c.total
           /\ c.totalPages > 0 => (c.totalPages - 1) * c.repoLimit < c.total
           /\ c.total = 0 => c.totalPages = 0
           /\ c.page >= 1
           /\ (c.page - 1) * c.repoLimit <= c.repoOffset
           /\ c.repoOffset < c.page * c.repoLimit

C22_Witness ==
    /\ app.search.status = StatusOK
    /\ app.search.limit > 100
    /\ app.search.total = 201
    /\ app.search.totalPages = 3
    /\ app.search.repoOffset = 201
    /\ app.search.page = 3


\* the statements of the current load that inserted a row into table t
Inserted(t) == {k \in Issued : stmts[k].tbl = t /\ ~stmts[k].err /\ ~stmts[k].dup}

\* C23: no lock serializes two invocations of Run. The damage the second one
\* can do to the first is reached (see the witness), and it has no other
\* cause: an INSERT of a run finds its table missing, or a row the run
\* committed is gone when it returns, only if DROP statements of the other
\* run were executed while the run was under way.
C23_DamageOnlyByConcurrentRun ==
    (op = "Run" /\ nOps \notin app.run2.hit) =>
        /\ \A k \in Issued : ~stmts[k].missing
        /\ pc = "done" => \A t \in TableNames : Cardinality(Inserted(t)) <= Len(Rows(t))

C23_Witness ==
    /\ op = "Run" /\ pc = "failed" /\ err = "commit_failed_tx"
    /\ \E k \in Issued : stmts[k].missing /\ stmts[k].tbl = "foods"
    /\ app.run2.pc \in {"ddl", "begin", "loop", "commit", "done"}
    /\ nOps \in app.run2.hit


\* C24: whenever Run has returned, with or without an error, the database
\* handle the run opened has been closed.
C24_HandleClosedOnReturn ==
    (op = "Run" /\ pc \in {"done", "failed"}) => handle \in {"nil", "closed"}


\* C25: after a successful CopyFoodEntries(user, source, target) the user's
\* entries on the target date are one copy with a fresh id of each entry the
\* user had on the source date before the call, and the entries of the source
\* date are as before; for every pair of dates, source = target included
C25_CopyIsExact ==
    LET c == app.diary.copy
        mine(R, d) == {e \in R : e.user_id = c.user /\ e.date = d}
        src == mine(c.before, c.source)
        tgt == mine(c.after, c.target)
    IN  c.ok =>
          /\ \E f \in [src -> tgt] :
                /\ \A t \in tgt : \E e \in src : f[e] = t
                /\ \A e1, e2 \in src : f[e1] = f[e2] => e1 = e2
                /\ \A e \in src :
                     /\ f[e] = [e EXCEPT !.id = f[e].id, !.date = c.target]
                     /\ f[e].id \notin {x.id : x \in c.before}
          /\ c.source # c.target => mine(c.after, c.source) = src

\* C26: the update and delete handlers change or remove only the entry named
\* by the request and only when it belongs to the requesting user; a request
\* answered with 404 or 403 has changed no row
C26_OnlyOwnEntryChanged ==
    \A s \in Slots :
        LET r == app.diary.reqs[s] IN
        /\ \A e \in r.changed : e.id = r.id /\ e.user_id = r.user
        /\ r.status \in {StatusNotFound, StatusForbidden} => r.changed = {}
        /\ r.changed # {} => r.status \in {StatusOK, StatusNoContent}

\* a delete of the owner went through while another user's request for an
\* entry of that owner was refused
C26_Witness ==
    \E s, t \in Slots :
        /\ app.diary.reqs[s].kind = "delete"
        /\ app.diary.reqs[s].status = StatusNoContent
        /\ app.diary.reqs[s].changed # {}
        /\ app.diary.reqs[t].status = StatusForbidden
        /\ app.diary.reqs[t].changed = {}

\* C27: a food that GetFoodByID returns comes with the complete nutrient list
\* of that food from one dataset version: the result is what one of the two
\* committed states the call read holds for the food
C27_ReadIsOneVersion ==
    LET c == app.read IN
    (c.pc = "done" /\ ~c.err /\ c.food # <<>>) =>
        \/ c.food = c.v1.food /\ c.nutrients = c.v1.nutrients
        \/ c.food = c.v2.food /\ c.nutrients = c.v2.nutrients

\* the stages whose table has a source-supplied primary key
KeyedStages == {st \in DOMAIN StageTable : StageTable[st] \in KeyedTables}
\* the records of the document that stage st inserts, as <<food, entry>>
Records(st) ==
    UNION {{<<i, j>> : j \in 1..(IF st = "food" THEN 1 ELSE ChildCount(root[i], st))} :
           i \in 1..Len(root)}
\* source order
Before(a, b) == a[1] < b[1] \/ (a[1] = b[1] /\ a[2] < b[2])
\* the row the INSERT for record a of stage st carries
RecordRow(st, a) == RowAt(root[a[1]], [idx |-> a[1], stage |-> st, j |-> a[2]])
\* the first record of stage st, in source order, with the key of record a
FirstWithKey(st, a) ==
    CHOOSE b \in Records(st) :
        /\ RecordRow(st, b).id = RecordRow(st, a).id
        /\ \A c \in Records(st) : RecordRow(st, c).id = RecordRow(st, a).id => ~Before(c, b)

\* C28: after a successful run, for every record of a keyed table (foods,
\* food_portions, food_nutrients) the committed table holds exactly one row
\* with the record's key, and it is the row of the first record in source
\* order that has this key, with that record's fdc_id and field values; the
\* INSERT of every later record with the key was skipped and added nothing.
C28_FirstRecordWins ==
    (op = "Run" /\ pc = "done") =>
        \A st \in KeyedStages : \A a \in Records(st) :
            LET T == Rows(StageTable[st])
                hits == {k \in 1..Len(T) : T[k].id = RecordRow(st, a).id}
            IN  /\ Cardinality(hits) = 1
                /\ \A k \in hits : T[k] = RecordRow(st, FirstWithKey(st, a))
                /\ \A k \in Issued :
                     (stmts[k].tbl = StageTable[st] /\ <<stmts[k].idx, stmts[k].j>> = a) =>
                        /\ ~stmts[k].err
                        /\ stmts[k].dup <=> a # FirstWithKey(st, a)

\* two foods, each with a portion of the same id: the committed portion is
\* the first food's
C28_Witness ==
    /\ op = "Run" /\ pc = "done"
    /\ Len(root) = 2
    /\ root[1].FdcId # root[2].FdcId
    /\ Len(root[1].FoodPortions) = 1 /\ root[1].FoodPortions = root[2].FoodPortions
    /\ Rows("food_portions") = <<Row(root[1].FoodPortions[1], root[1].FdcId)>>
    /\ \E k \in Issued : stmts[k].tbl = "food_portions" /\ stmts[k].idx = 2 /\ stmts[k].dup

\* C29: an import run leaves every row of diary.food_entries as it was: the
\* DROP TABLE foods CASCADE deletes no entry and changes no fdc_id, although
\* fdc_id references foods with ON DELETE SET NULL.
C29_DiaryUntouched ==
    op = "Run" => app.diary.rows = DiaryPool

\* a run has dropped the foreign key and replaced the dataset; the entries
\* still name the food of the old dataset, which foods no longer holds
C29_Witness ==
    /\ op = "Run" /\ pc = "done"
    /\ app.diary.fk = "dropped"
    /\ ~HasFood(Rows("foods"), OldId)
    /\ \E e \in app.diary.rows : e.fdc_id = OldId

\* the failures of the statements of the current load, in the order issued
Faults == [k \in Issued |-> stmts[k].fault]

\* C30: the load of the service importer ends as importFoundationFoods of the
\* standalone importer does on the same tables, the same document and the
\* same failures of the inserts: the same statements are issued, the tables
\* hold the same rows afterwards, both succeed or both fail, and the four
\* totals are the same.
C30_SameAsStandalone ==
    [][(pc = "commit" /\ pc' # "commit") =>
          \E commitFail \in BOOLEAN :
              LET S == importFoundationFoods(InSchema(conn.txPath, db, pub), root, Faults,
                                             commitFail)
              IN  /\ InSchema(conn.txPath, db', pub') = S.db
                  /\ (pc' = "done") = S.ok
                  /\ totals' = S.totals
                  /\ Len(stmts) = S.issued]_vars

\* a load on top of an earlier dataset has committed; one of its inserts was
\* skipped as a duplicate
C30_Witness ==
    /\ op = "importData" /\ pc = "done"
    /\ Len(root) = 2
    /\ \E k \in Issued : stmts[k].dup
    /\ HasFood(Rows("foods"), OldId)
    /\ totals.Foods = 2 /\ totals.Portions + totals.Nutrients >= 1

====
